---- MODULE Spec2Model ----
(***************************************************************************)
(* Model of the game state kept by class TicTacToe                         *)
(* (TicTacToePython/tic_tac_toe.py): the texts of the 3x3 grid of board    *)
(* buttons, the current player, the scoreboard, and the position of the    *)
(* click handler, which blocks inside the modal "Game Over" dialog.        *)
(***************************************************************************)
EXTENDS Integers, FiniteSets, Sequences, TLC

\* Side of the board: range(3) in the loops that build and scan the grid.
N == 3

\* Wins counted per player before a further winning move is cut off.
MaxScore == 1

Idx == 0 .. (N - 1)
\* Arguments of handle_click: the indices 0..N-1 the buttons pass, the
\* negative indices -N..-1 a Python list accepts as well, and one index past
\* each end (-N-1 and N), where the subscript raises IndexError.
Coords == (0 - N - 1) .. N
Players == {"X", "O"}
Texts == {"", "X", "O"}

VARIABLES
    buttons,         \* buttons[row][col]: the text of that board button
    current_player,  \* self.current_player
    scores,          \* self.scores
    pc,              \* where handle_click stands: "idle" when no handler runs
    event,           \* what the last handler call signalled
    before           \* what that call found when it started

vars == <<buttons, current_player, scores, pc, event, before>>

\* The grid as __init__ builds it and reset_board leaves it.
cleared == [row \in Idx |-> [col \in Idx |-> ""]]

\* Python list subscript on a list of length N: i in -N..N-1 is accepted,
\* a negative i counting from the end; anything else raises IndexError.
subscript_ok(i) == i >= 0 - N /\ i < N
subscript(i) == IF i < 0 THEN i + N ELSE i

\* Faulty variant of check_winner: the second diagonal is not checked.
check_winner_no_antidiagonal(b, player) ==
    \/ \E row \in Idx :
          b[row][0] = player /\ b[row][1] = player /\ b[row][2] = player
    \/ \E col \in Idx :
          b[0][col] = player /\ b[1][col] = player /\ b[2][col] = player
    \/ b[0][0] = player /\ b[1][1] = player /\ b[2][2] = player

\* check_winner(player) on grid b: rows, then columns, then both diagonals.
check_winner(b, player) ==
    \/ \E row \in Idx :
          b[row][0] = player /\ b[row][1] = player /\ b[row][2] = player
    \/ \E col \in Idx :
          b[0][col] = player /\ b[1][col] = player /\ b[2][col] = player
    \/ b[0][0] = player /\ b[1][1] = player /\ b[2][2] = player
    \/ b[0][2] = player /\ b[1][1] = player /\ b[2][0] = player

\* Faulty variant of is_board_full: the comparison is inverted, so a button
\* with a mark on it makes the scan answer False.
is_board_full_inverted(b) ==
    ~ \E row \in Idx : \E col \in Idx : b[row][col] # ""

\* is_board_full() on grid b: no button with empty text.
is_board_full(b) ==
    ~ \E row \in Idx : \E col \in Idx : b[row][col] = ""

\* Faulty variant of switch_player: both branches give "O".
switch_player_stuck(p) == IF p = "X" THEN "O" ELSE "O"

\* The switch of line 157.
switch_player(p) == IF p = "X" THEN "O" ELSE "X"

\* Faulty variant of already_used: the test of line 138 is missing.
already_used_unchecked(b, r, c) == FALSE

\* The test of line 138: the button already shows a mark.
already_used(b, r, c) == b[r][c] # ""

\* Faulty variant of mark: row and column are swapped.
mark_transposed(b, r, c, player) == [b EXCEPT ![c][r] = player]

\* The grid after line 142 wrote player's mark on button (r, c).
mark(b, r, c, player) == [b EXCEPT ![r][c] = player]

\* The match status the handler is reporting: a win or a tie exists while
\* its "Game Over" dialog is open and until the handler has reset the board.
status ==
    IF pc \in {"win_notice", "win_scored"} THEN <<"Won", current_player>>
    ELSE IF pc = "tie_notice" THEN <<"Tied">>
    ELSE <<"InProgress">>

\* What a handler finds when it starts: who is to move, the scoreboard, and
\* whether any button shows a mark.
found ==
    [player |-> current_player, scores |-> scores, marked |-> buttons # cleared]

TypeOK ==
    /\ buttons \in [Idx -> [Idx -> Texts]]
    /\ current_player \in Players
    /\ scores \in [Players -> 0 .. MaxScore]
    /\ pc \in {"idle", "win_notice", "win_scored", "tie_notice"}
    /\ event \in {"none", "IndexError", "ignored", "turn", "win", "tie",
                  "new_game", "scores_reset"}
    /\ before \in [player : Players, scores : [Players -> 0 .. MaxScore],
                   marked : BOOLEAN]

Init ==
    /\ buttons = cleared
    /\ current_player = "X"
    /\ scores = [p \in Players |-> 0]
    /\ pc = "idle"
    /\ event = "none"
    /\ before = found

\* Faulty variant of reset_board: the current player is left as it is.
reset_board_keeps_player ==
    /\ buttons' = cleared
    /\ current_player' = current_player

\* reset_board(): every button text cleared, X to move.
reset_board ==
    /\ buttons' = cleared
    /\ current_player' = "X"

\* Faulty variant of reset_scores: the key "X" is zeroed twice, "O" never.
reset_scores_x_twice ==
    /\ scores' = [scores EXCEPT !["X"] = 0]
    /\ reset_board

\* reset_scores(): both scores zeroed, then reset_board().
reset_scores ==
    /\ scores' = [p \in Players |-> 0]
    /\ reset_board

\* Faulty variant of handle_click: the full-board test comes before the
\* winner test.
handle_click_tie_first(row, col) ==
    /\ pc = "idle"
    /\ before' = found
    /\ IF ~ (subscript_ok(row) /\ subscript_ok(col))
       THEN /\ event' = "IndexError"
            /\ UNCHANGED <<buttons, current_player, scores, pc>>
       ELSE LET r == subscript(row)
                c == subscript(col)
                b == mark(buttons, r, c, current_player)
            IN  IF already_used(buttons, r, c)
                THEN /\ event' = "ignored"
                     /\ UNCHANGED <<buttons, current_player, scores, pc>>
                ELSE /\ buttons' = b
                     /\ IF is_board_full(b)
                        THEN /\ pc' = "tie_notice"
                             /\ event' = "tie"
                             /\ UNCHANGED <<current_player, scores>>
                        ELSE IF check_winner(b, current_player)
                        THEN /\ scores[current_player] < MaxScore
                             /\ pc' = "win_notice"
                             /\ event' = "win"
                             /\ UNCHANGED <<current_player, scores>>
                        ELSE /\ current_player' = switch_player(current_player)
                             /\ event' = "turn"
                             /\ UNCHANGED <<scores, pc>>

\* handle_click(row, col) up to the point where it returns or opens a dialog.
handle_click(row, col) ==
    /\ pc = "idle"
    /\ before' = found
    /\ IF ~ (subscript_ok(row) /\ subscript_ok(col))
       THEN \* self.buttons[row][col] raises IndexError
            /\ event' = "IndexError"
            /\ UNCHANGED <<buttons, current_player, scores, pc>>
       ELSE LET r == subscript(row)
                c == subscript(col)
                b == mark(buttons, r, c, current_player)
            IN  IF already_used(buttons, r, c)
                THEN /\ event' = "ignored"
                     /\ UNCHANGED <<buttons, current_player, scores, pc>>
                ELSE /\ buttons' = b
                     /\ IF check_winner(b, current_player)
                        THEN /\ scores[current_player] < MaxScore
                             /\ pc' = "win_notice"
                             /\ event' = "win"
                             /\ UNCHANGED <<current_player, scores>>
                        ELSE IF is_board_full(b)
                        THEN /\ pc' = "tie_notice"
                             /\ event' = "tie"
                             /\ UNCHANGED <<current_player, scores>>
                        ELSE /\ current_player' = switch_player(current_player)
                             /\ event' = "turn"
                             /\ UNCHANGED <<scores, pc>>

\* Faulty variant of win_scored: reset_board() is called before the score
\* is incremented, so the increment is still to come when the board is empty.
win_scored_after_reset ==
    /\ pc = "win_notice"
    /\ reset_board
    /\ pc' = "win_scored"
    /\ UNCHANGED <<scores, event, before>>

\* Faulty variant of win_scored: both scoreboard entries are incremented.
win_scored_both ==
    /\ pc = "win_notice"
    /\ scores' = [p \in Players |-> scores[p] + 1]
    /\ pc' = "win_scored"
    /\ UNCHANGED <<buttons, current_player, event, before>>

\* The winner dialog is dismissed: the winner's score is incremented.
win_scored ==
    /\ pc = "win_notice"
    /\ scores' = [scores EXCEPT ![current_player] = @ + 1]
    /\ pc' = "win_scored"
    /\ UNCHANGED <<buttons, current_player, event, before>>

\* Faulty variant of win_reset: the handler returns without reset_board().
win_reset_skipped ==
    /\ pc = "win_scored"
    /\ pc' = "idle"
    /\ UNCHANGED <<buttons, current_player, scores, event, before>>

\* The handler of a won match resets the board and returns.
win_reset ==
    /\ pc = "win_scored"
    /\ reset_board
    /\ pc' = "idle"
    /\ UNCHANGED <<scores, event, before>>

\* Faulty variant of tie_reset: the handler returns without reset_board().
tie_reset_skipped ==
    /\ pc = "tie_notice"
    /\ pc' = "idle"
    /\ UNCHANGED <<buttons, current_player, scores, event, before>>

\* The tie dialog is dismissed: the handler resets the board and returns.
tie_reset ==
    /\ pc = "tie_notice"
    /\ reset_board
    /\ pc' = "idle"
    /\ UNCHANGED <<scores, event, before>>

\* The "New Game" button: command=self.reset_board.
new_game ==
    /\ pc = "idle"
    /\ reset_board
    /\ event' = "new_game"
    /\ before' = found
    /\ UNCHANGED <<scores, pc>>

\* The "Reset Scores" button: command=self.reset_scores.
scores_reset ==
    /\ pc = "idle"
    /\ reset_scores
    /\ event' = "scores_reset"
    /\ before' = found
    /\ UNCHANGED pc

Next ==
    \/ \E row \in Coords : \E col \in Coords : handle_click(row, col)
    \/ win_scored
    \/ win_reset
    \/ tie_reset
    \/ new_game
    \/ scores_reset

Spec == Init /\ [][Next]_vars

(***************************************************************************)
(* Vocabulary of the properties.                                           *)
(***************************************************************************)

\* The 8 lines of the board, each a set of <<row, col>> cells.
Lines ==
    {{<<r, c>> : c \in Idx} : r \in Idx}
    \cup {{<<r, c>> : r \in Idx} : c \in Idx}
    \cup {{<<i, i>> : i \in Idx}, {<<i, N - 1 - i>> : i \in Idx}}

\* Some line of grid b holds mark m on all three cells.
HasLine(b, m) == \E L \in Lines : \A cell \in L : b[cell[1]][cell[2]] = m

\* The cells of grid b that show text t.
CellsWith(b, t) == {cell \in Idx \X Idx : b[cell[1]][cell[2]] = t}

\* Grid b with mark m written on the empty cell (r, c) and nothing else.
Placed(b, r, c, m) ==
    [row \in Idx |-> [col \in Idx |->
        IF row = r /\ col = c THEN m ELSE b[row][col]]]

NoScores == [p \in Players |-> 0]
OneMore(s, m) == [p \in Players |-> IF p = m THEN s[p] + 1 ELSE s[p]]

\* A grid from its three rows.
Grid(r0, r1, r2) == [row \in Idx |-> [col \in Idx |-> (<<r0, r1, r2>>[row + 1])[col + 1]]]

\* A step in which a handler that started idle wrote the current player's
\* mark on the empty cell (r, c): a legal move on that cell.
Move(r, c) ==
    /\ pc = "idle"
    /\ buttons[r][c] = ""
    /\ buttons'[r][c] = current_player

\* C1: a move by the current player m on an empty cell that leaves a line of
\* three m ends the match as Won(m), and by the time the handler returns m's
\* score is one higher and the other score is the same; a move that leaves no
\* line of m is not a win and changes no score.
C1_WinDetectedAndScored ==
    [][ /\ \A r \in Idx : \A c \in Idx :
              Move(r, c) =>
                  IF HasLine(buttons', current_player)
                  THEN /\ status' = <<"Won", current_player>>
                       /\ pc' = "win_notice"
                       /\ scores' = scores
                  ELSE /\ status'[1] # "Won"
                       /\ scores' = scores
        /\ pc = "win_notice" =>
              /\ pc' = "win_scored"
              /\ status' = status
              /\ scores' = OneMore(scores, current_player)
        /\ pc = "win_scored" => (pc' = "idle" /\ scores' = scores)
      ]_vars

\* C1 witness: the scenario X:(0,0) O:(1,1) X:(0,1) O:(2,2) X:(0,2) has been
\* played and scored: row 0 is X,X,X, the match is Won(X), X's score is 1.
C1_Witness ==
    /\ buttons = Grid(<<"X", "X", "X">>, <<"", "O", "">>, <<"", "", "O">>)
    /\ status = <<"Won", "X">>
    /\ pc = "win_scored"
    /\ scores = [p \in Players |-> IF p = "X" THEN 1 ELSE 0]

\* C2: a click on a cell that already shows a mark changes nothing: the grid,
\* the current player, the status and both scores are as before the call.
C2_OccupiedCellIsNoOp ==
    [][ \/ /\ buttons' = buttons
           /\ current_player' = current_player
           /\ status' = status
           /\ scores' = scores
        \/ \A r \in Idx : \A c \in Idx :
              buttons[r][c] = "" \/ ~ handle_click(r, c)
      ]_vars

\* C2 witness: (0,0) was clicked twice in a row on a new board; the second
\* click was ignored and the state is the one the first click left.
C2_Witness ==
    /\ event = "ignored"
    /\ buttons = Grid(<<"X", "", "">>, <<"", "", "">>, <<"", "", "">>)
    /\ current_player = "O"
    /\ status = <<"InProgress">>
    /\ scores = NoScores

\* C3: a legal move that does not end the match hands the turn to the mark
\* that did not just move, and the first move on a cleared board is X's, so
\* the marks of a match go down X, O, X, O, ...
C3_TurnAlternates ==
    [][ \A r \in Idx : \A c \in Idx :
            Move(r, c) =>
                /\ buttons = cleared => current_player = "X"
                /\ status' = <<"InProgress">> =>
                      /\ current_player' \in Players
                      /\ current_player' # current_player
      ]_vars

\* C3 witness: X moved, O moved, neither ended the match and it is X's turn
\* again.
C3_Witness ==
    /\ event = "turn"
    /\ pc = "idle"
    /\ current_player = "X"
    /\ Cardinality(CellsWith(buttons, "X")) = 1
    /\ Cardinality(CellsWith(buttons, "O")) = 1

\* C4: a legal move that fills the last empty cell and leaves no line of
\* three equal marks ends the match as Tied, and no score changes before the
\* handler returns.
C4_FullBoardNoLineIsTie ==
    [][ /\ \A r \in Idx : \A c \in Idx :
              ( /\ Move(r, c)
                /\ CellsWith(buttons', "") = {}
                /\ ~ HasLine(buttons', "X")
                /\ ~ HasLine(buttons', "O") ) =>
                  /\ status' = <<"Tied">>
                  /\ scores' = scores
        /\ pc = "tie_notice" => (pc' = "idle" /\ scores' = scores)
      ]_vars

\* C4 witness: the board was filled as X,O,X / X,O,O / O,X,X, the match is
\* Tied and the scores are still 0, 0.
C4_Witness ==
    /\ buttons = Grid(<<"X", "O", "X">>, <<"X", "O", "O">>, <<"O", "X", "X">>)
    /\ status = <<"Tied">>
    /\ scores = NoScores

\* A step that runs reset_board() alone: the "New Game" button, or the call
\* that ends a handler whose move finished the match.
BoardResetStep ==
    \/ pc = "idle" /\ event' = "new_game"
    \/ pc \in {"win_scored", "tie_notice"} /\ pc' # pc

\* C5: reset_board leaves all 9 cells empty, X to move, the status
\* InProgress and both scores as they were.
C5_ResetBoardEffect ==
    [][ BoardResetStep =>
            /\ \A r \in Idx : \A c \in Idx : buttons'[r][c] = ""
            /\ current_player' = "X"
            /\ status' = <<"InProgress">>
            /\ scores' = scores
      ]_vars

\* C5 witness: "New Game" was pressed in the middle of a match with O to
\* move, after X had won a match: the board is empty, X is to move and X's
\* win is still on the scoreboard.
C5_Witness ==
    /\ event = "new_game"
    /\ before = [player |-> "O", scores |-> OneMore(NoScores, "X"),
                 marked |-> TRUE]
    /\ CellsWith(buttons, "") = Idx \X Idx
    /\ current_player = "X"
    /\ status = <<"InProgress">>
    /\ scores = OneMore(NoScores, "X")

\* C6: reset_scores leaves both scores 0 and the board as reset_board leaves
\* it: all 9 cells empty, X to move, the status InProgress.
C6_ResetScoresEffect ==
    [][ (pc = "idle" /\ event' = "scores_reset") =>
            /\ \A p \in Players : scores'[p] = 0
            /\ \A r \in Idx : \A c \in Idx : buttons'[r][c] = ""
            /\ current_player' = "X"
            /\ status' = <<"InProgress">>
      ]_vars

\* C6 witness: "Reset Scores" was pressed in the middle of a match with O to
\* move and a win of each player on the scoreboard: scores 0, 0 on an empty
\* board with X to move.
C6_Witness ==
    /\ event = "scores_reset"
    /\ before = [player |-> "O", scores |-> [p \in Players |-> 1],
                 marked |-> TRUE]
    /\ scores = NoScores
    /\ buttons = cleared
    /\ current_player = "X"
    /\ pc = "idle"

\* C7: a click with a row or col outside 0..2 raises an error and changes
\* nothing: no cell is written, and the current player, the status and the
\* scores stay as they were.
C7_OutOfRangeFailsFast ==
    [][ \A row \in Coords : \A col \in Coords :
            ((row \notin Idx \/ col \notin Idx) /\ handle_click(row, col)) =>
                /\ event' = "IndexError"
                /\ buttons' = buttons
                /\ current_player' = current_player
                /\ status' = status
                /\ scores' = scores
      ]_vars

\* C8: once a handler whose move ended the match (a win of either player, or
\* a tie) has returned, the board is empty and X is to move.
C8_MatchEndResets ==
    (pc = "idle" /\ event \in {"win", "tie"}) =>
        /\ \A r \in Idx : \A c \in Idx : buttons[r][c] = ""
        /\ current_player = "X"

\* C8 witness: O made the winning move; the handler has returned, the board
\* is empty and X is to move.
C8_Witness ==
    /\ pc = "idle"
    /\ event = "win"
    /\ before.player = "O"
    /\ scores = OneMore(NoScores, "O")
    /\ buttons = cleared
    /\ current_player = "X"

\* C9: while the status is Won or Tied no click changes the board or the
\* status, and the status is left only by a board reset, which gives
\* InProgress on an empty board.
C9_WonAndTiedAreTerminal ==
    [][ status # <<"InProgress">> =>
            /\ \A row \in Coords : \A col \in Coords :
                  handle_click(row, col) =>
                      (buttons' = buttons /\ status' = status)
            /\ IF status' = status
               THEN buttons' = buttons
               ELSE /\ status' = <<"InProgress">>
                    /\ \A r \in Idx : \A c \in Idx : buttons'[r][c] = ""
                    /\ current_player' = "X"
      ]_vars

\* C9 witness: the match is Won(O) and its dialog is open on the winning
\* board.
C9_Witness ==
    /\ status = <<"Won", "O">>
    /\ pc = "win_notice"
    /\ HasLine(buttons, "O")

\* C10: both scores are non-negative integers; a score changes only when a
\* winning move is scored (the winner's entry goes up by 1) or when
\* "Reset Scores" is pressed (both entries go to 0).
C10_ScoreboardChanges ==
    /\ [](\A p \in Players : scores[p] \in Nat)
    /\ [][ IF pc = "win_notice"
           THEN scores' = OneMore(scores, current_player)
           ELSE IF pc = "idle" /\ event' = "scores_reset"
           THEN scores' = NoScores
           ELSE scores' = scores
         ]_vars

\* C10 witness: both players have a win on the scoreboard and "New Game" was
\* pressed since: the scores outlived the board resets.
C10_Witness ==
    /\ event = "new_game"
    /\ buttons = cleared
    /\ \A p \in Players : scores[p] = 1

\* The full lines of mark m (all three cells m) in grid b.
FullLines(b, m) == {L \in Lines : \A cell \in L : b[cell[1]][cell[2]] = m}

\* The number of lines the step's move completed for the mover.
NewlyCompleted == Cardinality(FullLines(buttons', current_player)
                              \ FullLines(buttons, current_player))

\* C11 as stated: a legal move completes at most one line that was not
\* complete before it.
C11_AtMostOneNewLine ==
    [][ \A r \in Idx : \A c \in Idx : Move(r, c) => NewlyCompleted <= 1 ]_vars

\* C11 as amended: a legal move completes at most two lines that were not
\* complete before it (the cell it fills can be the last one of two lines).
C11_AtMostTwoNewLines ==
    [][ \A r \in Idx : \A c \in Idx : Move(r, c) => NewlyCompleted <= 2 ]_vars

\* C11 witness: X's winning move filled the corner shared by row 0 and
\* column 2 and completed both at once.
C11_Witness ==
    /\ pc = "win_notice"
    /\ event = "win"
    /\ current_player = "X"
    /\ Cardinality(FullLines(buttons, "X")) = 2
    /\ \A c \in Idx : buttons[0][c] = "X"
    /\ \A r \in Idx : buttons[r][2] = "X"

\* C12: the winner test comes first: a legal move that fills the last empty
\* cell and completes a line of the mover ends the match as Won(mover), which
\* the handler scores with +1 for the mover; the match ends as Tied exactly
\* when the board is full and the mover has no complete line.
C12_WinBeforeTie ==
    [][ /\ \A r \in Idx : \A c \in Idx :
              Move(r, c) =>
                  /\ (CellsWith(buttons', "") = {} /\ HasLine(buttons', current_player)) =>
                        /\ status' = <<"Won", current_player>>
                        /\ pc' = "win_notice"
                  /\ status' = <<"Tied">> <=>
                        /\ CellsWith(buttons', "") = {}
                        /\ ~ HasLine(buttons', current_player)
        /\ (pc = "win_notice" /\ CellsWith(buttons, "") = {}) =>
              scores' = OneMore(scores, current_player)
      ]_vars

\* C12 witness: X's ninth mark filled the board and completed a line; the
\* match is Won(X) and the win has been scored.
C12_Witness ==
    /\ pc = "win_scored"
    /\ status = <<"Won", "X">>
    /\ CellsWith(buttons, "") = {}
    /\ HasLine(buttons, "X")
    /\ scores = OneMore(before.scores, "X")

\* C13: a click on the empty cell (r, c) that does not end the match writes
\* the current player's mark on exactly that cell and leaves the other 8
\* cells and both scores alone; and a cell that shows a mark keeps it in
\* every step that is not a board reset.
C13_OneWritePerCell ==
    [][ /\ \A r \in Idx : \A c \in Idx :
              (buttons[r][c] = "" /\ event' = "turn" /\ handle_click(r, c)) =>
                  /\ buttons' = Placed(buttons, r, c, current_player)
                  /\ scores' = scores
        /\ \/ buttons' = buttons
           \/ \A r \in Idx : \A c \in Idx : buttons'[r][c] = ""
           \/ \A r \in Idx : \A c \in Idx :
                 buttons[r][c] # "" => buttons'[r][c] = buttons[r][c]
      ]_vars

\* C13 witness: three marks into a match, after X on (0,0), O on (1,1) and
\* X on (0,1): each of the three cells holds the mark first written to it.
C13_Witness ==
    /\ event = "turn"
    /\ pc = "idle"
    /\ current_player = "O"
    /\ buttons = Grid(<<"X", "X", "">>, <<"", "O", "">>, <<"", "", "">>)

\* C14: in the handler of a winning move the score comes before the reset:
\* while the winner's score is still the one the handler found, the winning
\* board is in place; once the board has been cleared, the winner's score is
\* one higher than the handler found it and the other score is the same.
C14_ScoredBeforeReset ==
    (event = "win") =>
        /\ scores = before.scores =>
              (pc = "win_notice" /\ HasLine(buttons, before.player))
        /\ ~ HasLine(buttons, before.player) =>
              /\ pc = "idle"
              /\ buttons = cleared
              /\ scores = OneMore(before.scores, before.player)
        /\ pc = "win_scored" =>
              /\ HasLine(buttons, before.player)
              /\ current_player = before.player
              /\ scores = OneMore(before.scores, before.player)

\* C14 witness: O's win has been added to the scoreboard and the winning
\* board has not been cleared yet.
C14_Witness ==
    /\ event = "win"
    /\ pc = "win_scored"
    /\ before.player = "O"
    /\ HasLine(buttons, "O")
    /\ before.scores = NoScores
    /\ scores = OneMore(NoScores, "O")

\* C15: when the winner's "Game Over" notice is shown, the winner's score
\* already includes this win.
C15_ScoredBeforeNotice ==
    pc = "win_notice" => scores = OneMore(before.scores, before.player)

\* The number of cells of the board that show mark m.
Count(m) == Cardinality(CellsWith(buttons, m))

\* C16: between handler calls the board has as many X as O, or one X more,
\* and X is to move exactly when the two counts are equal.
C16_TurnMatchesCounts ==
    pc = "idle" =>
        /\ Count("X") - Count("O") \in {0, 1}
        /\ current_player = "X" <=> Count("X") = Count("O")
        /\ current_player = "O" <=> Count("X") = Count("O") + 1

\* C16 witness: three moves into a match the board holds two X and one O,
\* and O is to move.
C16_Witness ==
    /\ pc = "idle"
    /\ event = "turn"
    /\ current_player = "O"
    /\ Count("X") = 2
    /\ Count("O") = 1

\* C17: between handler calls the board holds no line of three equal marks
\* and has at least one empty cell.
C17_NoFinishedBoardAtRest ==
    pc = "idle" =>
        /\ ~ HasLine(buttons, "X")
        /\ ~ HasLine(buttons, "O")
        /\ CellsWith(buttons, "") # {}

\* C17 witness: the handler of a tied match has returned; the full board it
\* ended on is gone.
C17_Witness ==
    /\ pc = "idle"
    /\ event = "tie"
    /\ before.marked
    /\ CellsWith(buttons, "") = Idx \X Idx

\* The number of marks on the board.
Marks == Count("X") + Count("O")

\* C18: every legal move adds exactly one mark to the board; a match that
\* has just ended holds at least 5 and at most 9 marks; a tie holds 9, the
\* last of them X's; and a match still running holds at most 8, so a match
\* ends with the ninth mark at the latest.
C18_MatchEndsWithin5To9 ==
    /\ [](/\ pc # "idle" => (Marks >= 5 /\ Marks <= N * N)
          /\ pc = "tie_notice" => (Marks = N * N /\ current_player = "X")
          /\ pc = "idle" => Marks < N * N)
    /\ [][ \A r \in Idx : \A c \in Idx :
              Move(r, c) =>
                  Cardinality(CellsWith(buttons', "")) =
                      Cardinality(CellsWith(buttons, "")) - 1
         ]_vars

\* C18 witness: X won with the fifth mark of the match, the earliest end
\* there is.
C18_Witness ==
    /\ pc = "win_notice"
    /\ current_player = "X"
    /\ Marks = 5

\* The mark that is not m.
Opponent(m) == IF m = "X" THEN "O" ELSE "X"

\* C19: right after a legal move the player who did not move holds no
\* complete line, so the board never holds complete lines of both marks, and
\* the handler reports a win exactly when the board holds a complete line,
\* which is the mover's.
C19_OnlyMoverCanHaveLine ==
    /\ [](~ (HasLine(buttons, "X") /\ HasLine(buttons, "O")))
    /\ [][ \A r \in Idx : \A c \in Idx :
              Move(r, c) =>
                  /\ ~ HasLine(buttons', Opponent(current_player))
                  /\ status' = <<"Won", current_player>> <=>
                        (HasLine(buttons', "X") \/ HasLine(buttons', "O"))
         ]_vars

\* C19 witness: O completed a line on a board where X holds four marks and
\* no line; the win is reported for O.
C19_Witness ==
    /\ pc = "win_notice"
    /\ status = <<"Won", "O">>
    /\ HasLine(buttons, "O")
    /\ ~ HasLine(buttons, "X")
    /\ Count("X") = 4
    /\ Count("O") = 4

====
